---------------------------- MODULE Spec2Model ----------------------------
(***************************************************************************)
(* A model of xdf2bids.xdf_processor.XDFProcessor: stream organisation,    *)
(* event / trial / perturbation extraction and the overlap window.         *)
(*                                                                         *)
(* Representation.                                                         *)
(*   - A Python str is a sequence of one-character strings, so that `in`,  *)
(*     split, replace, lower, int() and float() are computed, not assumed. *)
(*   - A float time (seconds) is an integer number of ticks of 1e-5 s      *)
(*     (TicksPerSecond ticks per second).  Rounding to 3 decimals is       *)
(*     rounding to a multiple of TicksPerMilli ticks, ties to even, as     *)
(*     numpy's round does.                                                 *)
(*   - An optional value is a set: None is {}, a value x is {x}.           *)
(***************************************************************************)
EXTENDS Integers, Sequences, FiniteSets, TLC

None == {}
Some(x) == {x}
The(o) == CHOOSE x \in o : TRUE

(***************************************************************************)
(* Resolution of the time axis.  DUPLICATE_ONSET_DECIMALS = 3 decimals of  *)
(* a second is one millisecond; a tick is 1e-5 s.                          *)
(***************************************************************************)
DUPLICATE_ONSET_DECIMALS == 3
TickDecimals == DUPLICATE_ONSET_DECIMALS + 2

RECURSIVE Pow10(_)
Pow10(n) == IF n = 0 THEN 1 ELSE 10 * Pow10(n - 1)

TicksPerSecond == Pow10(TickDecimals)
TicksPerMilli == Pow10(TickDecimals - DUPLICATE_ONSET_DECIMALS)

Abs(x) == IF x < 0 THEN -x ELSE x

SeqMax(s) == CHOOSE x \in {s[i] : i \in DOMAIN s} : \A i \in DOMAIN s : s[i] <= x
SeqMin(s) == CHOOSE x \in {s[i] : i \in DOMAIN s} : \A i \in DOMAIN s : x <= s[i]

(***************************************************************************)
(* Strings as character sequences.                                         *)
(***************************************************************************)
UpperChars == <<"A","B","C","D","E","F","G","H","I","J","K","L","M",
                "N","O","P","Q","R","S","T","U","V","W","X","Y","Z">>
LowerChars == <<"a","b","c","d","e","f","g","h","i","j","k","l","m",
                "n","o","p","q","r","s","t","u","v","w","x","y","z">>
DigitChars == <<"0","1","2","3","4","5","6","7","8","9">>

\* str.lower() on one character
LowerChar(c) ==
    IF \E i \in DOMAIN UpperChars : UpperChars[i] = c
    THEN LowerChars[CHOOSE i \in DOMAIN UpperChars : UpperChars[i] = c]
    ELSE c

\* str.lower()
Lower(s) == [i \in DOMAIN s |-> LowerChar(s[i])]

\* `sub in s` for two str
Contains(sub, s) ==
    \E i \in 1..(Len(s) - Len(sub) + 1) : SubSeq(s, i, i + Len(sub) - 1) = sub

StartsWithAt(s, sub, i) ==
    /\ i + Len(sub) - 1 <= Len(s)
    /\ SubSeq(s, i, i + Len(sub) - 1) = sub

\* s.split(sep) for a one-character separator: always at least one part
RECURSIVE SplitFrom(_, _, _, _)
SplitFrom(s, sep, i, cur) ==
    IF i > Len(s) THEN <<cur>>
    ELSE IF s[i] = sep THEN <<cur>> \o SplitFrom(s, sep, i + 1, <<>>)
    ELSE SplitFrom(s, sep, i + 1, Append(cur, s[i]))

Split(s, sep) == SplitFrom(s, sep, 1, <<>>)

\* s.replace(sub, ''): every non-overlapping occurrence, left to right
RECURSIVE RemoveFrom(_, _, _)
RemoveFrom(s, sub, i) ==
    IF i > Len(s) THEN <<>>
    ELSE IF StartsWithAt(s, sub, i) THEN RemoveFrom(s, sub, i + Len(sub))
    ELSE <<s[i]>> \o RemoveFrom(s, sub, i + 1)

Remove(s, sub) == RemoveFrom(s, sub, 1)

IsDigit(c) == \E i \in DOMAIN DigitChars : DigitChars[i] = c
DigitVal(c) == (CHOOSE i \in DOMAIN DigitChars : DigitChars[i] = c) - 1
AllDigits(s) == \A i \in DOMAIN s : IsDigit(s[i])

RECURSIVE DigitsVal(_)
DigitsVal(s) ==
    IF s = <<>> THEN 0
    ELSE 10 * DigitsVal(SubSeq(s, 1, Len(s) - 1)) + DigitVal(s[Len(s)])

Unsigned(s) == IF s # <<>> /\ s[1] \in {"-", "+"} THEN Tail(s) ELSE s
Sign(s) == IF s # <<>> /\ s[1] = "-" THEN -1 ELSE 1

\* int(s): an optional sign and decimal digits; anything else is a ValueError
IntOk(s) == Unsigned(s) # <<>> /\ AllDigits(Unsigned(s))
IntVal(s) == Sign(s) * DigitsVal(Unsigned(s))

\* float(s), in ticks: an optional sign, digits, optionally a point and digits
\* (at least one digit in all); anything else is a ValueError.  Fractions are
\* read to the tick.
FloatParts(s) == Split(Unsigned(s), ".")
FloatOk(s) ==
    LET p == FloatParts(s) IN
    /\ Len(p) \in {1, 2}
    /\ \A i \in DOMAIN p : AllDigits(p[i])
    /\ \E i \in DOMAIN p : p[i] # <<>>

FracTicks(f) ==
    LET d == IF Len(f) > TickDecimals THEN SubSeq(f, 1, TickDecimals) ELSE f
    IN DigitsVal(d) * Pow10(TickDecimals - Len(d))

FloatVal(s) ==
    LET p == FloatParts(s) IN
    Sign(s) * (DigitsVal(p[1]) * TicksPerSecond
               + (IF Len(p) = 2 THEN FracTicks(p[2]) ELSE 0))

(***************************************************************************)
(* String literals of the source.                                          *)
(***************************************************************************)
s_wii == <<"w","i","i">>
s_mocap == <<"m","o","c","a","p">>
s_kinect == <<"k","i","n","e","c","t">>
s_pupil_capture == <<"p","u","p","i","l","_","c","a","p","t","u","r","e">>
s_gaze == <<"g","a","z","e">>
s_fixation == <<"f","i","x","a","t","i","o","n">>
s_vr_bodysway == <<"v","r","_","b","o","d","y","s","w","a","y">>
s_stimulus == <<"s","t","i","m","u","l","u","s">>
s_stim == <<"s","t","i","m">>
s_timeseries == <<"t","i","m","e","s","e","r","i","e","s">>
s_marker == <<"m","a","r","k","e","r">>
s_event == <<"e","v","e","n","t">>
s_trigger == <<"t","r","i","g","g","e","r">>
s_trial_meta == <<"t","r","i","a","l","_","m","e","t","a">>
s_meta == <<"m","e","t","a">>
s_TRIAL_END_colon == <<"T","R","I","A","L","_","E","N","D",":">>
s_colon_duration_eq == <<":","d","u","r","a","t","i","o","n","=">>
s_duration_eq == <<"d","u","r","a","t","i","o","n","=">>
s_perturbation_start ==
    <<"p","e","r","t","u","r","b","a","t","i","o","n","_","s","t","a","r","t">>
s_perturbation_end ==
    <<"p","e","r","t","u","r","b","a","t","i","o","n","_","e","n","d">>

(***************************************************************************)
(* XDFProcessor.__init__: the rule table, in dict insertion order, with    *)
(* the names lower-cased (the types are left as written).                  *)
(***************************************************************************)
RawStreamPatterns == <<
    [role |-> "wii", name |-> <<s_wii>>, type |-> <<s_mocap>>,
     matching |-> "pattern"],
    [role |-> "kinect", name |-> <<s_kinect>>, type |-> <<s_mocap>>,
     matching |-> "pattern"],
    [role |-> "eye_tracker", name |-> <<s_pupil_capture>>, type |-> <<s_gaze>>,
     matching |-> "exact"],
    [role |-> "eye_tracker_fixations", name |-> <<s_pupil_capture>>,
     type |-> <<s_fixation>>, matching |-> "pattern"],
    [role |-> "stimulus", name |-> <<s_vr_bodysway, s_stimulus, s_stim>>,
     type |-> <<s_timeseries>>, matching |-> "pattern"],
    [role |-> "marker", name |-> <<s_marker, s_event, s_trigger>>,
     type |-> <<s_marker>>, matching |-> "pattern"],
    [role |-> "meta", name |-> <<s_trial_meta>>, type |-> <<s_marker, s_meta>>,
     matching |-> "pattern"] >>

stream_patterns ==
    [i \in DOMAIN RawStreamPatterns |->
        [RawStreamPatterns[i] EXCEPT
            !.name = [j \in DOMAIN RawStreamPatterns[i].name |->
                         Lower(RawStreamPatterns[i].name[j])]]]

Patterns(role) ==
    stream_patterns[CHOOSE i \in DOMAIN stream_patterns :
                        stream_patterns[i].role = role]

AnyIn(indicators, s) ==
    \E i \in DOMAIN indicators : Contains(indicators[i], s)

AnyEq(indicators, s) ==
    \E i \in DOMAIN indicators : indicators[i] = s

\* _is_marker_stream
IsMarkerStream(stream) ==
    /\ AnyIn(Patterns("marker").type, Lower(stream.type))
    /\ AnyIn(Patterns("marker").name, Lower(stream.name))

\* _is_meta_stream
IsMetaStream(stream) ==
    /\ AnyIn(Patterns("meta").type, Lower(stream.type))
    /\ AnyIn(Patterns("meta").name, Lower(stream.name))

\* A slip: every rule matched by substring, whatever its mode
RuleMatchesBySubstring(p, stream_name, stream_type_str) ==
    /\ AnyIn(p.name, stream_name)
    /\ AnyIn(p.type, stream_type_str)

\* One rule of _classify_stream against the lower-cased name and type
RuleMatches(p, stream_name, stream_type_str) ==
    \/ /\ p.matching = "exact"
       /\ AnyEq(p.name, stream_name)
       /\ AnyEq(p.type, stream_type_str)
    \/ /\ p.matching = "pattern"
       /\ AnyIn(p.name, stream_name)
       /\ AnyIn(p.type, stream_type_str)

\* _classify_stream: the first matching rule's role, else "data"
ClassifyStream(stream) ==
    LET n == Lower(stream.name)
        t == Lower(stream.type)
        hits == {i \in DOMAIN stream_patterns : RuleMatches(stream_patterns[i], n, t)}
    IN IF hits = {} THEN "data"
       ELSE stream_patterns[CHOOSE i \in hits : \A j \in hits : i <= j].role

(***************************************************************************)
(* _organize_streams: one pass over self.streams, each stream appended to  *)
(* the first group whose test it passes.                                   *)
(***************************************************************************)
NoGroups == [data |-> <<>>, marker |-> <<>>, meta |-> <<>>]

\* A slip: the marker test made first
OrganizeStepMarkerFirst(g, stream) ==
    IF IsMarkerStream(stream) THEN [g EXCEPT !.marker = Append(@, stream)]
    ELSE IF IsMetaStream(stream) THEN [g EXCEPT !.meta = Append(@, stream)]
    ELSE [g EXCEPT !.data = Append(@, stream)]

\* A slip: the marker test as a second `if`, not an `elif`
OrganizeStepTwoIfs(g, stream) ==
    LET g1 == IF IsMetaStream(stream) THEN [g EXCEPT !.meta = Append(@, stream)] ELSE g
    IN IF IsMarkerStream(stream) THEN [g1 EXCEPT !.marker = Append(@, stream)]
       ELSE IF IsMetaStream(stream) THEN g1
       ELSE [g1 EXCEPT !.data = Append(@, stream)]

OrganizeStep(g, stream) ==
    IF IsMetaStream(stream) THEN [g EXCEPT !.meta = Append(@, stream)]
    ELSE IF IsMarkerStream(stream) THEN [g EXCEPT !.marker = Append(@, stream)]
    ELSE [g EXCEPT !.data = Append(@, stream)]

RECURSIVE OrganizeStreams(_)
OrganizeStreams(ss) ==
    IF ss = <<>> THEN NoGroups
    ELSE OrganizeStep(OrganizeStreams(SubSeq(ss, 1, Len(ss) - 1)), ss[Len(ss)])

(***************************************************************************)
(* xdf2bids.utils.parse_event_string is imported by the source but is not  *)
(* part of it.  It is modelled from the specification's Event Parser: the  *)
(* payload is split on ':', the first token is the label, a                *)
(* "trial_name=" token gives the trial name, and a payload with no         *)
(* key=value token is kept whole under the fallback key `data`.  It never  *)
(* raises.                                                                 *)
(***************************************************************************)
s_trial_name_eq == <<"t","r","i","a","l","_","n","a","m","e","=">>

ParseEventString(payload) ==
    LET parts == Split(payload, ":")
        named == {i \in DOMAIN parts : StartsWithAt(parts[i], s_trial_name_eq, 1)}
        keyed == {i \in DOMAIN parts : Contains(<<"=">>, parts[i])}
    IN [label |-> parts[1],
        trial_name |-> IF named = {} THEN None
                       ELSE Some(Remove(parts[CHOOSE i \in named : \A j \in named : i <= j],
                                        s_trial_name_eq)),
        data |-> IF keyed = {} THEN Some(payload) ELSE None]

(***************************************************************************)
(* _extract_events                                                         *)
(***************************************************************************)
\* `len(marker) > 0 and marker[0]`: a sample with a non-empty first element
MarkerPresent(marker) == Len(marker) > 0 /\ marker[1] # <<>>

\* The dict built for one marker, with the parser's fields merged in
EventDict(stream, i) ==
    [onset |-> stream.time_stamps[i],
     duration |-> 0,
     event_type |-> stream.time_series[i][1],
     source |-> stream.name,
     label |-> ParseEventString(stream.time_series[i][1]).label]

RECURSIVE StreamEvents(_, _)
StreamEvents(stream, n) ==
    IF n = 0 THEN <<>>
    ELSE IF MarkerPresent(stream.time_series[n])
         THEN Append(StreamEvents(stream, n - 1), EventDict(stream, n))
         ELSE StreamEvents(stream, n - 1)

\* The list appended to by the two nested loops, in stream then sample order
RECURSIVE CollectEvents(_)
CollectEvents(ms) ==
    IF ms = <<>> THEN <<>>
    ELSE CollectEvents(SubSeq(ms, 1, Len(ms) - 1))
         \o StreamEvents(ms[Len(ms)], Len(ms[Len(ms)].time_series))

\* Series.round(DUPLICATE_ONSET_DECIMALS): to the millisecond, ties to even
Round3(t) ==
    LET q == t \div TicksPerMilli
        r == t % TicksPerMilli
    IN IF 2 * r < TicksPerMilli THEN q * TicksPerMilli
       ELSE IF 2 * r > TicksPerMilli THEN (q + 1) * TicksPerMilli
       ELSE IF q % 2 = 0 THEN q * TicksPerMilli
       ELSE (q + 1) * TicksPerMilli

\* A slip: the onset compared as it is, not rounded
EventKeyUnrounded(e) == <<e.label, e.onset>>

\* The columns drop_duplicates compares: subset=['label', 'onset_rounded']
EventKey(e) == <<e.label, Round3(e.onset)>>

\* DataFrame.drop_duplicates(subset=...): the first row of each key is kept
RECURSIVE DropDuplicateEvents(_)
DropDuplicateEvents(evs) ==
    IF evs = <<>> THEN <<>>
    ELSE LET n == Len(evs)
             init == SubSeq(evs, 1, n - 1)
         IN IF \E j \in 1..(n - 1) : EventKey(evs[j]) = EventKey(evs[n])
            THEN DropDuplicateEvents(init)
            ELSE Append(DropDuplicateEvents(init), evs[n])

\* DataFrame.sort_values(by='onset') with the default kind='quicksort', which
\* is not a stable sort: rows of equal onset may come out in any order.
RECURSIVE SortIndexOutcomes(_, _)
SortIndexOutcomes(rows, idx) ==
    IF idx = {} THEN {<<>>}
    ELSE LET least == {i \in idx : \A j \in idx : rows[i].onset <= rows[j].onset}
         IN UNION {{<<i>> \o rest : rest \in SortIndexOutcomes(rows, idx \ {i})}
                   : i \in least}

\* A slip: the rows left in the order they were collected
SortValuesOmitted(rows) == {rows}

SortValuesByOnset(rows) ==
    {[k \in DOMAIN p |-> rows[p[k]]] : p \in SortIndexOutcomes(rows, DOMAIN rows)}

\* Every value self.events can have when _extract_events returns
ExtractEventsOutcomes(ms) ==
    LET collected == CollectEvents(ms)
    IN IF collected = <<>> THEN {<<>>}
       ELSE SortValuesByOnset(DropDuplicateEvents(collected))

(***************************************************************************)
(* _extract_meta                                                           *)
(***************************************************************************)
\* `len(data) > 0`: the first element is parsed whatever it holds
MetaPresent(data) == Len(data) > 0

MetaRecord(stream, i) ==
    LET parsed == ParseEventString(stream.time_series[i][1])
    IN [onset |-> stream.time_stamps[i],
        source |-> stream.name,
        label |-> parsed.label,
        trial_name |-> parsed.trial_name,
        data |-> parsed.data]

RECURSIVE StreamMeta(_, _)
StreamMeta(stream, n) ==
    IF n = 0 THEN <<>>
    ELSE IF MetaPresent(stream.time_series[n])
         THEN Append(StreamMeta(stream, n - 1), MetaRecord(stream, n))
         ELSE StreamMeta(stream, n - 1)

RECURSIVE CollectMeta(_)
CollectMeta(ms) ==
    IF ms = <<>> THEN <<>>
    ELSE CollectMeta(SubSeq(ms, 1, Len(ms) - 1))
         \o StreamMeta(ms[Len(ms)], Len(ms[Len(ms)].time_series))

\* dedup_cols: onset_rounded, then trial_name if any record has one, else data
\* if any record has it (a column exists when one record carries the key)
MetaKey(recs, m) ==
    IF \E i \in DOMAIN recs : recs[i].trial_name # None
    THEN <<Round3(m.onset), m.trial_name>>
    ELSE IF \E i \in DOMAIN recs : recs[i].data # None
    THEN <<Round3(m.onset), m.data>>
    ELSE <<Round3(m.onset)>>

RECURSIVE DropDuplicateMeta(_, _)
DropDuplicateMeta(recs, n) ==
    IF n = 0 THEN <<>>
    ELSE IF \E j \in 1..(n - 1) : MetaKey(recs, recs[j]) = MetaKey(recs, recs[n])
         THEN DropDuplicateMeta(recs, n - 1)
         ELSE Append(DropDuplicateMeta(recs, n - 1), recs[n])

\* meta_df.drop(columns='data')
DropData(recs) == [i \in DOMAIN recs |-> [recs[i] EXCEPT !.data = None]]

ExtractMetaOutcomes(ms) ==
    LET meta_records == CollectMeta(ms)
    IN IF meta_records = <<>> THEN {<<>>}
       ELSE SortValuesByOnset(
                DropData(DropDuplicateMeta(meta_records, Len(meta_records))))

(***************************************************************************)
(* list.sort(key=lambda x: x['onset']): a stable sort                      *)
(***************************************************************************)
RECURSIVE InsertByOnset(_, _)
InsertByOnset(sorted, x) ==
    IF sorted = <<>> THEN <<x>>
    ELSE IF sorted[Len(sorted)].onset <= x.onset THEN Append(sorted, x)
    ELSE Append(InsertByOnset(SubSeq(sorted, 1, Len(sorted) - 1), x),
                sorted[Len(sorted)])

RECURSIVE SortByOnset(_)
SortByOnset(rows) ==
    IF rows = <<>> THEN <<>>
    ELSE InsertByOnset(SortByOnset(SubSeq(rows, 1, Len(rows) - 1)), rows[Len(rows)])

(***************************************************************************)
(* _extract_trials_from_events                                             *)
(***************************************************************************)
\* str(n) for an int
RECURSIVE NatStr(_)
NatStr(n) ==
    IF n < 10 THEN <<DigitChars[n + 1]>>
    ELSE Append(NatStr(n \div 10), DigitChars[(n % 10) + 1])

IntStr(n) == IF n < 0 THEN <<"-">> \o NatStr(-n) ELSE NatStr(n)

s_trial_ == <<"t","r","i","a","l","_">>

\* The two substring tests that select a TRIAL_END event
IsTrialEnd(event_type) ==
    /\ Contains(s_TRIAL_END_colon, event_type)
    /\ Contains(s_colon_duration_eq, event_type)

\* The try block: parts[1] must be an int and parts[3], less 'duration=', a
\* float; an IndexError or ValueError skips the event
TrialParses(event_type) ==
    LET parts == Split(event_type, ":")
    IN /\ Len(parts) >= 2
       /\ IntOk(parts[2])
       /\ Len(parts) >= 4
       /\ FloatOk(Remove(parts[4], s_duration_eq))

TrialOf(event) ==
    LET parts == Split(event.event_type, ":")
        trial_num == IntVal(parts[2])
        duration == FloatVal(Remove(parts[4], s_duration_eq))
    IN [onset |-> event.onset - duration,
        duration |-> duration,
        trial_type |-> s_trial_ \o IntStr(trial_num),
        trial_number |-> trial_num]

\* The candidates appended to self.trials, in event order
RECURSIVE CandidateTrials(_)
CandidateTrials(evs) ==
    IF evs = <<>> THEN <<>>
    ELSE LET init == CandidateTrials(SubSeq(evs, 1, Len(evs) - 1))
             e == evs[Len(evs)]
         IN IF IsTrialEnd(e.event_type) /\ TrialParses(e.event_type)
            THEN Append(init, TrialOf(e))
            ELSE init

\* A slip: the last candidate of a number always taking the place
ReplacesAlways(trial, held) == TRUE

\* Whether a candidate takes the place of the trial held for its number
Replaces(trial, held) == trial.onset > held.onset

\* A slip: every candidate kept
UniqueStepKeepAll(unique, trial) == Append(unique, trial)

\* unique_trials: a dict keyed by trial number, in first-insertion order; a
\* later candidate replaces the held one in place
UniqueStep(unique, trial) ==
    IF \E k \in DOMAIN unique : unique[k].trial_number = trial.trial_number
    THEN [k \in DOMAIN unique |->
             IF unique[k].trial_number = trial.trial_number
                /\ Replaces(trial, unique[k])
             THEN trial ELSE unique[k]]
    ELSE Append(unique, trial)

RECURSIVE UniqueTrials(_)
UniqueTrials(cands) ==
    IF cands = <<>> THEN <<>>
    ELSE UniqueStep(UniqueTrials(SubSeq(cands, 1, Len(cands) - 1)), cands[Len(cands)])

\* self.trials for self.events already sorted in place by the method's first line
ExtractTrials(evs) == SortByOnset(UniqueTrials(CandidateTrials(evs)))

(***************************************************************************)
(* _extract_perturbations_from_events                                      *)
(***************************************************************************)
s_perturbation == <<"p","e","r","t","u","r","b","a","t","i","o","n">>

IsPerturbationStart(event) == Contains(s_perturbation_start, Lower(event.event_type))

IsPerturbationEnd(event) ==
    /\ ~IsPerturbationStart(event)
    /\ Contains(s_perturbation_end, Lower(event.event_type))

PerturbationDict(event) ==
    [onset |-> event.onset, duration |-> 0,
     event_type |-> event.event_type, source |-> event.source]

PerturbationDicts(evs) == [i \in DOMAIN evs |-> PerturbationDict(evs[i])]

\* atol=1e-5 of deduplicate_on_onset, in ticks
AtolTicks == Pow10(TickDecimals - 5)
\* 1 / rtol for np.isclose's default rtol=1e-5
RtolInverse == Pow10(5)

\* np.isclose(a, b, atol=atol): |a - b| <= atol + rtol * |b|
IsClose(a, b) == Abs(a - b) <= AtolTicks + (Abs(b) \div RtolInverse)

\* deduplicate_on_onset: an event is kept unless close to one already kept
RECURSIVE DeduplicateOnOnset(_)
DeduplicateOnOnset(evs) ==
    IF evs = <<>> THEN <<>>
    ELSE LET deduped == DeduplicateOnOnset(SubSeq(evs, 1, Len(evs) - 1))
             ev == evs[Len(evs)]
         IN IF \E k \in DOMAIN deduped : IsClose(ev.onset, deduped[k].onset)
            THEN deduped
            ELSE Append(deduped, ev)

PerturbationStarts(evs) ==
    DeduplicateOnOnset(SortByOnset(PerturbationDicts(SelectSeq(evs, IsPerturbationStart))))

PerturbationEnds(evs) ==
    DeduplicateOnOnset(SortByOnset(PerturbationDicts(SelectSeq(evs, IsPerturbationEnd))))

\* A slip: the pairs typed but their durations left at 0.0
PairUpWithoutDuration(starts, ends) ==
    [i \in DOMAIN starts |->
        IF i <= Len(ends)
        THEN [starts[i] EXCEPT !.event_type = s_perturbation]
        ELSE starts[i]]

\* The loop over zip(starts, ends): as many pairs as the shorter list; every
\* start stays in the list, a paired one with its duration and type set
PairUp(starts, ends) ==
    [i \in DOMAIN starts |->
        IF i <= Len(ends)
        THEN [starts[i] EXCEPT !.duration = ends[i].onset - starts[i].onset,
                               !.event_type = s_perturbation]
        ELSE starts[i]]

\* A slip: no padding for a single missing end
OnMismatchDropAll(starts, ends) == <<>>

\* A slip: the pairs that can be made are made whatever the mismatch
OnMismatchPairAnyway(starts, ends) ==
    IF Len(starts) - Len(ends) = 1
    THEN PairUp(starts, Append(ends, starts[Len(starts)]))
    ELSE PairUp(starts, ends)

\* What is done for a start/end count mismatch (the except branch)
OnMismatch(starts, ends) ==
    IF Len(starts) - Len(ends) = 1
    THEN PairUp(starts, Append(ends, starts[Len(starts)]))
    ELSE <<>>

PairPerturbations(starts, ends) ==
    IF Len(starts) = Len(ends) THEN PairUp(starts, ends)
    ELSE OnMismatch(starts, ends)

ExtractPerturbations(evs) ==
    PairPerturbations(PerturbationStarts(evs), PerturbationEnds(evs))

(***************************************************************************)
(* _find_overlap_window                                                    *)
(***************************************************************************)
NonEmptyStreams(ds) == SelectSeq(ds, LAMBDA st : Len(st.time_stamps) > 0)

StartTimes(ds) ==
    [i \in DOMAIN NonEmptyStreams(ds) |-> NonEmptyStreams(ds)[i].time_stamps[1]]

EndTimes(ds) ==
    [i \in DOMAIN NonEmptyStreams(ds) |->
        NonEmptyStreams(ds)[i].time_stamps[Len(NonEmptyStreams(ds)[i].time_stamps)]]

\* The window returned when there is nothing to measure: (0.0, 1.0)
DefaultWindow == <<0, TicksPerSecond>>

\* A slip: the intersection returned even when it is empty
FindOverlapWindowNoFallback(ds) ==
    IF ds = <<>> \/ StartTimes(ds) = <<>> THEN DefaultWindow
    ELSE <<SeqMax(StartTimes(ds)), SeqMin(EndTimes(ds))>>

FindOverlapWindow(ds) ==
    IF ds = <<>> \/ StartTimes(ds) = <<>> THEN DefaultWindow
    ELSE LET overlap_start == SeqMax(StartTimes(ds))
             overlap_end == SeqMin(EndTimes(ds))
         IN IF overlap_start <= overlap_end
            THEN <<overlap_start, overlap_end>>
            ELSE <<SeqMin(StartTimes(ds)), SeqMax(EndTimes(ds))>>

(***************************************************************************)
(* process_data: the loop over the data streams and the bundle             *)
(***************************************************************************)
\* x[mask] for mask = (timestamps >= start_time) & (timestamps <= end_time)
RECURSIVE Windowed(_, _, _, _, _)
Windowed(x, timestamps, start_time, end_time, n) ==
    IF n = 0 THEN <<>>
    ELSE IF timestamps[n] >= start_time /\ timestamps[n] <= end_time
         THEN Append(Windowed(x, timestamps, start_time, end_time, n - 1), x[n])
         ELSE Windowed(x, timestamps, start_time, end_time, n - 1)

\* A slip: the first stream of a role kept, later ones of the role ignored
RECURSIVE ProcessStreamsKeepFirst(_, _, _)
ProcessStreamsKeepFirst(ds, start_time, end_time) ==
    IF ds = <<>> THEN [r \in {} |-> None]
    ELSE LET done == ProcessStreamsKeepFirst(SubSeq(ds, 1, Len(ds) - 1),
                                             start_time, end_time)
             stream == ds[Len(ds)]
             stream_type == ClassifyStream(stream)
             n == Len(stream.time_stamps)
             windowed_timestamps ==
                 Windowed(stream.time_stamps, stream.time_stamps, start_time, end_time, n)
             windowed_data ==
                 Windowed(stream.time_series, stream.time_stamps, start_time, end_time, n)
         IN IF Len(windowed_data) = 0 \/ stream_type \in DOMAIN done THEN done
            ELSE [r \in (DOMAIN done) \cup {stream_type} |->
                     IF r = stream_type
                     THEN [raw_data |-> windowed_data,
                           timestamps |-> windowed_timestamps,
                           name |-> stream.name,
                           type |-> stream.type,
                           samples |-> Len(windowed_data)]
                     ELSE done[r]]

\* processed_data and stream_metadata after the loop, as one map from role to
\* what the two dicts hold for it; a stream with no sample in the window is
\* skipped, a later stream of the same role overwrites an earlier one
RECURSIVE ProcessStreams(_, _, _)
ProcessStreams(ds, start_time, end_time) ==
    IF ds = <<>> THEN [r \in {} |-> None]
    ELSE LET done == ProcessStreams(SubSeq(ds, 1, Len(ds) - 1), start_time, end_time)
             stream == ds[Len(ds)]
             stream_type == ClassifyStream(stream)
             n == Len(stream.time_stamps)
             windowed_timestamps ==
                 Windowed(stream.time_stamps, stream.time_stamps, start_time, end_time, n)
             windowed_data ==
                 Windowed(stream.time_series, stream.time_stamps, start_time, end_time, n)
         IN IF Len(windowed_data) = 0 THEN done
            ELSE [r \in (DOMAIN done) \cup {stream_type} |->
                     IF r = stream_type
                     THEN [raw_data |-> windowed_data,
                           timestamps |-> windowed_timestamps,
                           name |-> stream.name,
                           type |-> stream.type,
                           samples |-> Len(windowed_data)]
                     ELSE done[r]]

\* The dict process_data returns
Results(ds, evs, m, tr, pe) ==
    LET w == FindOverlapWindow(ds)
        processed == ProcessStreams(ds, w[1], w[2])
    IN [data |-> [r \in DOMAIN processed |->
                     [raw_data |-> processed[r].raw_data,
                      timestamps |-> processed[r].timestamps]],
        metadata |-> [r \in DOMAIN processed |->
                         [name |-> processed[r].name,
                          type |-> processed[r].type,
                          samples |-> processed[r].samples]],
        events |-> evs,
        meta |-> m,
        trials |-> tr,
        perturbations |-> pe,
        time_window |-> w,
        global_t0 |-> w[1],
        processing_info |->
            [data_streams_processed |-> 2 * Cardinality(DOMAIN processed),
             events_found |-> Len(evs),
             trials_found |-> Len(tr),
             duration |-> w[2] - w[1]]]

(***************************************************************************)
(* The processor.  Attributes of XDFProcessor; `trials`, `perturbations`   *)
(* and `meta_streams` do not exist before they are first assigned and are  *)
(* read with a default of [] (getattr) or only after load_xdf, so an       *)
(* absent one is the empty list here.                                      *)
(*   results  the dict the last process_data returned (None before)        *)
(*   pc       "new" after construction, "loaded" after load_xdf; inside    *)
(*            process_data the step that has returned ("events", "meta",   *)
(*            "trials", "perturbations"), and "done" once it has returned  *)
(*   first_events  the events of the run whose output was fed back in      *)
(*   relative the dict the last apply_relative_time_to_results returned    *)
(*   outcome  what the last call of process_data without a recording, of   *)
(*            convert_to_*_time or of _classify_stream did: the value it   *)
(*            returned or the error it raised                              *)
(***************************************************************************)
VARIABLES streams, data_streams, marker_streams, meta_streams,
          events, meta, trials, perturbations, global_t0,
          results, pc, first_events, relative, outcome

vars == <<streams, data_streams, marker_streams, meta_streams,
          events, meta, trials, perturbations, global_t0,
          results, pc, first_events, relative, outcome>>

Init ==
    /\ streams = None
    /\ data_streams = <<>>
    /\ marker_streams = <<>>
    /\ meta_streams = <<>>
    /\ events = <<>>
    /\ meta = <<>>
    /\ trials = <<>>
    /\ perturbations = <<>>
    /\ global_t0 = None
    /\ results = None
    /\ pc = "new"
    /\ first_events = None
    /\ relative = None
    /\ outcome = None

\* load_xdf for a file pyxdf reads as the stream list ss
Load(ss) ==
    /\ streams' = Some(ss)
    /\ LET g == OrganizeStreams(ss)
       IN /\ data_streams' = g.data
          /\ marker_streams' = g.marker
          /\ meta_streams' = g.meta
    /\ pc' = "loaded"
    /\ UNCHANGED <<events, meta, trials, perturbations, global_t0, results,
                   relative, outcome>>

LoadXdf(ss) == Load(ss) /\ UNCHANGED first_events

\* process_data with a recording loaded runs the five steps below in order;
\* pc names the step that has just returned.

\* self._extract_events(), the first statement after the check for a recording
ExtractEvents ==
    /\ pc \in {"loaded", "done"}
    /\ streams # None
    /\ events' \in ExtractEventsOutcomes(marker_streams)
    /\ pc' = "events"
    /\ UNCHANGED <<streams, data_streams, marker_streams, meta_streams, meta,
                   trials, perturbations, global_t0, results, first_events,
                   relative, outcome>>

\* self._extract_meta()
ExtractMeta ==
    /\ pc = "events"
    /\ meta' \in ExtractMetaOutcomes(meta_streams)
    /\ pc' = "meta"
    /\ UNCHANGED <<streams, data_streams, marker_streams, meta_streams, events,
                   trials, perturbations, global_t0, results, first_events,
                   relative, outcome>>

\* self._extract_trials_from_events(): sorts self.events in place first
ExtractTrialsFromEvents ==
    /\ pc = "meta"
    /\ events' = SortByOnset(events)
    /\ trials' = ExtractTrials(SortByOnset(events))
    /\ pc' = "trials"
    /\ UNCHANGED <<streams, data_streams, marker_streams, meta_streams, meta,
                   perturbations, global_t0, results, first_events,
                   relative, outcome>>

\* self._extract_perturbations_from_events()
ExtractPerturbationsFromEvents ==
    /\ pc = "trials"
    /\ perturbations' = ExtractPerturbations(events)
    /\ pc' = "perturbations"
    /\ UNCHANGED <<streams, data_streams, marker_streams, meta_streams, events,
                   meta, trials, global_t0, results, first_events,
                   relative, outcome>>

\* The rest of process_data: the window, global_t0, the loop over the data
\* streams and the returned dict
FinishProcessData ==
    /\ pc = "perturbations"
    /\ LET res == Results(data_streams, events, meta, trials, perturbations)
       IN /\ global_t0' = Some(res.global_t0)
          /\ results' = Some(res)
    /\ pc' = "done"
    /\ UNCHANGED <<streams, data_streams, marker_streams, meta_streams, events,
                   meta, trials, perturbations, first_events,
                   relative, outcome>>

ProcessData ==
    \/ ExtractEvents
    \/ ExtractMeta
    \/ ExtractTrialsFromEvents
    \/ ExtractPerturbationsFromEvents
    \/ FinishProcessData

\* Every attribute of the processor and the last returned bundle
attributes ==
    <<streams, data_streams, marker_streams, meta_streams, events, meta,
      trials, perturbations, global_t0, results>>

\* The caller has control: no process_data call is under way
Idle == pc \in {"new", "loaded", "done"}

\* process_data with no recording loaded: the ValueError of its first statement
ProcessDataNotLoaded ==
    /\ Idle
    /\ streams = None
    /\ outcome' = Some([op |-> "process_data", arg |-> <<>>,
                        raised |-> TRUE, value |-> <<>>])
    /\ UNCHANGED <<attributes, pc, first_events, relative>>

\* A slip: the difference taken from 0 when there is no global_t0
ConvertToRelativeTimeUnguarded(t0, absolute_timestamps) ==
    [raised |-> FALSE,
     value |-> [i \in DOMAIN absolute_timestamps |->
                   absolute_timestamps[i] - (IF t0 = None THEN 0 ELSE The(t0))]]

\* convert_to_relative_time with self.global_t0 = t0
ConvertToRelativeTime(t0, absolute_timestamps) ==
    IF t0 = None THEN [raised |-> TRUE, value |-> <<>>]
    ELSE [raised |-> FALSE,
          value |-> [i \in DOMAIN absolute_timestamps |->
                        absolute_timestamps[i] - The(t0)]]

\* convert_to_absolute_time with self.global_t0 = t0
ConvertToAbsoluteTime(t0, relative_timestamps) ==
    IF t0 = None THEN [raised |-> TRUE, value |-> <<>>]
    ELSE [raised |-> FALSE,
          value |-> [i \in DOMAIN relative_timestamps |->
                        relative_timestamps[i] + The(t0)]]

ConvertRelative(absolute_timestamps) ==
    /\ Idle
    /\ LET out == ConvertToRelativeTime(global_t0, absolute_timestamps)
       IN outcome' = Some([op |-> "convert_to_relative_time",
                           arg |-> absolute_timestamps,
                           raised |-> out.raised, value |-> out.value])
    /\ UNCHANGED <<attributes, pc, first_events, relative>>

ConvertAbsolute(relative_timestamps) ==
    /\ Idle
    /\ LET out == ConvertToAbsoluteTime(global_t0, relative_timestamps)
       IN outcome' = Some([op |-> "convert_to_absolute_time",
                           arg |-> relative_timestamps,
                           raised |-> out.raised, value |-> out.value])
    /\ UNCHANGED <<attributes, pc, first_events, relative>>

\* _classify_stream(stream)
Classify(stream) ==
    /\ Idle
    /\ outcome' = Some([op |-> "_classify_stream", arg |-> stream,
                        raised |-> FALSE, value |-> ClassifyStream(stream)])
    /\ UNCHANGED <<attributes, pc, first_events, relative>>

(***************************************************************************)
(* apply_relative_time_to_results.  The bundle process_data returns holds  *)
(* the processor's own events, meta, trials and perturbations lists, so a  *)
(* write through a copy that shares its contents with the bundle is a      *)
(* write to the bundle and to the processor.                               *)
(***************************************************************************)
\* A slip: copy.copy, a new dict whose values are the original's objects
ShallowCopy(obj) == [value |-> obj, shared |-> TRUE]

\* copy.deepcopy: nothing in the copy is an object of the original
DeepCopy(obj) == [value |-> obj, shared |-> FALSE]

\* `rec['onset'] = rec['onset'] - global_t0` for every record of a list
RebaseOnsets(recs, t0) ==
    [i \in DOMAIN recs |-> [recs[i] EXCEPT !.onset = @ - t0]]

\* `timestamps - global_t0` for every '<role>_timestamps' entry of data
RebaseTimestamps(data, t0) ==
    [r \in DOMAIN data |->
        [data[r] EXCEPT !.timestamps = [i \in DOMAIN @ |-> @[i] - t0]]]

\* A slip: the perturbations left at their absolute onsets
RebaseInPlaceButPerturbations(res, t0) ==
    [res EXCEPT !.data = RebaseTimestamps(@, t0),
                !.events = RebaseOnsets(@, t0),
                !.meta = RebaseOnsets(@, t0),
                !.trials = RebaseOnsets(@, t0)]

\* The five loops, writing into the contents of the dict res
RebaseInPlace(res, t0) ==
    [res EXCEPT !.data = RebaseTimestamps(@, t0),
                !.events = RebaseOnsets(@, t0),
                !.meta = RebaseOnsets(@, t0),
                !.trials = RebaseOnsets(@, t0),
                !.perturbations = RebaseOnsets(@, t0)]

\* relative_results['use_relative_time'] = True
MarkedRelative(res) ==
    [data |-> res.data, metadata |-> res.metadata, events |-> res.events,
     meta |-> res.meta, trials |-> res.trials,
     perturbations |-> res.perturbations, time_window |-> res.time_window,
     global_t0 |-> res.global_t0, processing_info |-> res.processing_info,
     use_relative_time |-> TRUE]

\* apply_relative_time_to_results(results) for the bundle the last
\* process_data returned
ApplyRelativeTimeToResults ==
    /\ pc = "done"
    /\ results # None
    /\ LET relative_results == DeepCopy(The(results))
           t0 == The(results).time_window[1]
           written == RebaseInPlace(relative_results.value, t0)
       IN /\ relative' = Some(MarkedRelative(written))
          /\ IF relative_results.shared
             THEN /\ results' = Some(written)
                  /\ events' = written.events
                  /\ meta' = written.meta
                  /\ trials' = written.trials
                  /\ perturbations' = written.perturbations
             ELSE UNCHANGED <<results, events, meta, trials, perturbations>>
    /\ UNCHANGED <<streams, data_streams, marker_streams, meta_streams,
                   global_t0, pc, first_events, outcome>>

(***************************************************************************)
(* Recordings.  A stream is what pyxdf returns for it: its name and type   *)
(* (info), time_stamps and time_series of equal length.                    *)
(***************************************************************************)
SeqsUpTo(S, n) == UNION {[1..k -> S] : k \in 0..n}

s_Markers == <<"M","a","r","k","e","r","s">>
s_markers_a == <<"m","a","r","k","e","r","s","_","a">>
s_markers_b == <<"m","a","r","k","e","r","s","_","b">>

\* A marker stream of (timestamp, payload) samples, one string per sample
MarkerStream(name, samples) ==
    [name |-> name, type |-> s_Markers,
     time_stamps |-> [i \in DOMAIN samples |-> samples[i][1]],
     time_series |-> [i \in DOMAIN samples |-> <<samples[i][2]>>]]

\* Two marker streams sharing out the samples q: the first k to one stream
TwoMarkerStreams(q, k) ==
    <<MarkerStream(s_markers_a, SubSeq(q, 1, k)),
      MarkerStream(s_markers_b, SubSeq(q, k + 1, Len(q)))>>

MarkerRecordings(Onsets, Payloads, n) ==
    UNION {{TwoMarkerStreams(q, k) : k \in 0..Len(q)}
           : q \in SeqsUpTo(Onsets \X Payloads, n)}

(***************************************************************************)
(* Event extraction: markers on two streams, in any order of time, with    *)
(* empty payloads, equal labels and onsets on both sides of a rounding     *)
(* boundary.                                                               *)
(***************************************************************************)
MaxMarkers == 2

EventOnsets == {0, TicksPerMilli \div 2, (3 * TicksPerMilli) \div 4}
EventPayloads == {<<>>, <<"a">>, <<"a",":","1">>, <<"b">>}

EventRecordings == MarkerRecordings(EventOnsets, EventPayloads, MaxMarkers)

\* The events of a run fed back in as marker input: one single-sample marker
\* stream per event, in event order, with the event's onset, payload and source
StreamsFromEvents(evs) ==
    [i \in DOMAIN evs |->
        [name |-> evs[i].source, type |-> s_Markers,
         time_stamps |-> <<evs[i].onset>>,
         time_series |-> <<<<evs[i].event_type>>>>]]

Refeed ==
    /\ pc = "done"
    /\ first_events = None
    /\ Load(StreamsFromEvents(events))
    /\ first_events' = Some(events)

LoadEventRecording == pc = "new" /\ \E ss \in EventRecordings : LoadXdf(ss)

NextEvents == LoadEventRecording \/ ProcessData \/ Refeed

SpecEvents == Init /\ [][NextEvents]_vars

\* C2: the event list _extract_events leaves is non-decreasing in onset,
\* whatever the order of the timestamps within a stream or across streams.
C2_EventsSorted ==
    \A i \in 1..(Len(events) - 1) : events[i].onset <= events[i + 1].onset

\* _extract_events has returned for a stream whose two timestamps run backwards
C2_Witness ==
    /\ pc = "events"
    /\ Len(events) = 2
    /\ events[1].onset < events[2].onset
    /\ \E k \in DOMAIN marker_streams :
          /\ Len(marker_streams[k].time_stamps) = 2
          /\ marker_streams[k].time_stamps[1] > marker_streams[k].time_stamps[2]

\* The non-empty markers of the loaded marker streams, as <<stream, sample>>
PresentMarkers ==
    {sk \in UNION {{<<s, k>> : k \in DOMAIN marker_streams[s].time_series}
                   : s \in DOMAIN marker_streams} :
        /\ Len(marker_streams[sk[1]].time_series[sk[2]]) > 0
        /\ marker_streams[sk[1]].time_series[sk[2]][1] # <<>>}

MarkerOnset(sk) == marker_streams[sk[1]].time_stamps[sk[2]]
MarkerPayload(sk) == marker_streams[sk[1]].time_series[sk[2]][1]
MarkerLabel(sk) == ParseEventString(MarkerPayload(sk)).label

\* C3: after _extract_events the events hold exactly one representative of
\* each (label, onset rounded to 3 decimals) class of the non-empty markers:
\* no two events agree on label and rounded onset, every marker's class has an
\* event, and every event is one of the markers.
C3_OnePerClass ==
    pc = "events" =>
        /\ \A i, j \in DOMAIN events :
              (/\ events[i].label = events[j].label
               /\ Round3(events[i].onset) = Round3(events[j].onset)) => i = j
        /\ \A sk \in PresentMarkers :
              \E i \in DOMAIN events :
                 /\ events[i].label = MarkerLabel(sk)
                 /\ Round3(events[i].onset) = Round3(MarkerOnset(sk))
        /\ \A i \in DOMAIN events :
              \E sk \in PresentMarkers :
                 /\ events[i].onset = MarkerOnset(sk)
                 /\ events[i].event_type = MarkerPayload(sk)
                 /\ events[i].label = MarkerLabel(sk)
                 /\ events[i].source = marker_streams[sk[1]].name

\* Two markers of one class, different in payload and in exact onset, have
\* been collapsed into one event
C3_Witness ==
    /\ pc = "events"
    /\ Len(events) = 1
    /\ \E a, b \in PresentMarkers :
          /\ MarkerOnset(a) # MarkerOnset(b)
          /\ MarkerPayload(a) # MarkerPayload(b)

MaxStreams == 3

s_Trial_Meta_Marker ==
    <<"T","r","i","a","l","_","M","e","t","a","_","M","a","r","k","e","r">>
s_EventMarkers == <<"E","v","e","n","t","M","a","r","k","e","r","s">>

OrganizeNames == {s_Trial_Meta_Marker, s_EventMarkers, s_wii}
OrganizeTypes == {s_Markers, s_meta, s_mocap}

EmptyStream(name, type) ==
    [name |-> name, type |-> type, time_stamps |-> <<>>, time_series |-> <<>>]

OrganizeRecordings ==
    SeqsUpTo({EmptyStream(n, t) : n \in OrganizeNames, t \in OrganizeTypes}, MaxStreams)

LoadOrganizeRecording == pc = "new" /\ \E ss \in OrganizeRecordings : LoadXdf(ss)

NextOrganize == LoadOrganizeRecording \/ ProcessData

SpecOrganize == Init /\ [][NextOrganize]_vars

\* How many times x occurs in the sequence q
Count(x, q) == Cardinality({i \in DOMAIN q : q[i] = x})

\* C1: once a recording is loaded, every stream of it is in exactly one of
\* data_streams, marker_streams and meta_streams: each stream occurs in the
\* three groups together as often as in the input, never in two groups, and
\* the group sizes sum to the number of streams.
C1_Partition ==
    streams # None =>
        LET ss == The(streams) IN
        /\ Len(data_streams) + Len(marker_streams) + Len(meta_streams) = Len(ss)
        /\ \A i \in DOMAIN ss :
              /\ Count(ss[i], data_streams) + Count(ss[i], marker_streams)
                     + Count(ss[i], meta_streams) = Count(ss[i], ss)
              /\ Cardinality({g \in {data_streams, marker_streams, meta_streams} :
                                 Count(ss[i], g) > 0}) = 1

\* A recording with all three groups filled, one of its meta streams passing
\* the marker test as well
C1_Witness ==
    /\ pc = "loaded"
    /\ data_streams # <<>>
    /\ marker_streams # <<>>
    /\ \E i \in DOMAIN meta_streams : IsMarkerStream(meta_streams[i])

(***************************************************************************)
(* Trial reconstruction.  The recorder's TRIAL_END payload,                *)
(* "TRIAL_END:<n>:time=<t>:duration=<d>", is written out here so that the  *)
(* parse in _extract_trials_from_events has something real to read.        *)
(***************************************************************************)
RECURSIVE PadDigits(_, _)
PadDigits(f, w) ==
    IF w = 0 THEN <<>>
    ELSE Append(PadDigits(f \div 10, w - 1), DigitChars[(f % 10) + 1])

RECURSIVE StripZeros(_)
StripZeros(digits) ==
    IF Len(digits) > 1 /\ digits[Len(digits)] = "0"
    THEN StripZeros(SubSeq(digits, 1, Len(digits) - 1))
    ELSE digits

\* A non-negative time in ticks written as a decimal number of seconds: "10.0"
FloatStr(t) ==
    NatStr(t \div TicksPerSecond) \o <<".">>
        \o StripZeros(PadDigits(t % TicksPerSecond, TickDecimals))

s_TRIAL_END == <<"T","R","I","A","L","_","E","N","D">>
s_time_eq == <<"t","i","m","e","=">>

TrialEndPayload(n, t, d) ==
    s_TRIAL_END \o <<":">> \o IntStr(n) \o <<":">> \o s_time_eq \o FloatStr(t)
        \o <<":">> \o s_duration_eq \o FloatStr(d)

Seconds(x) == x * TicksPerSecond

TrialNumbers == {1, 2}
TrialDurations == {Seconds(1), Seconds(2), Seconds(3)}
TrialEndOnsets == {Seconds(10), Seconds(11)}
PayloadTime == Seconds(100)

TrialPayloads ==
    {TrialEndPayload(n, PayloadTime, d) : n \in TrialNumbers, d \in TrialDurations}

TrialRecordings == MarkerRecordings(TrialEndOnsets, TrialPayloads, MaxMarkers)

LoadTrialRecording == pc = "new" /\ \E ss \in TrialRecordings : LoadXdf(ss)

\* One process_data call on a recording of TRIAL_END markers
NextTrials == LoadTrialRecording \/ (pc # "done" /\ ProcessData)

SpecTrials == Init /\ [][NextTrials]_vars

\* The candidate trial of every TRIAL_END event, read off the payload as the
\* recorder wrote it
EventCandidates ==
    {c \in UNION {{[onset |-> events[i].onset - d, duration |-> d,
                    trial_type |-> s_trial_ \o IntStr(n), trial_number |-> n,
                    payload |-> TrialEndPayload(n, PayloadTime, d), event |-> i]
                   : n \in TrialNumbers, d \in TrialDurations}
                  : i \in DOMAIN events} :
        events[c.event].event_type = c.payload}

AsTrial(c) ==
    [onset |-> c.onset, duration |-> c.duration, trial_type |-> c.trial_type,
     trial_number |-> c.trial_number]

NearTicks == TicksPerSecond \div Pow10(4)

DuplicateDurations == {Seconds(10)}
DuplicateOffsets == 0..(TicksPerMilli - 1)
DuplicateGaps == (1 - NearTicks)..(NearTicks - 1)

DuplicateRecordings ==
    {<<MarkerStream(s_markers_a,
                    <<<<PayloadTime + o, TrialEndPayload(n, PayloadTime, d)>>>>),
       MarkerStream(s_markers_b,
                    <<<<PayloadTime + o + g, TrialEndPayload(n, PayloadTime, d)>>>>)>>
     : o \in DuplicateOffsets, g \in DuplicateGaps,
       n \in TrialNumbers, d \in DuplicateDurations}

LoadDuplicateRecording == pc = "new" /\ \E ss \in DuplicateRecordings : LoadXdf(ss)

NextDuplicate == LoadDuplicateRecording \/ (pc # "done" /\ ProcessData)

SpecDuplicate == Init /\ [][NextDuplicate]_vars

\* Two marker streams of one sample each carry the TRIAL_END payload of trial
\* n with duration d, less than 0.0001 s apart
SamePayloadTwice(n, d) ==
    /\ Len(marker_streams) = 2
    /\ \A k \in 1..2 :
          /\ Len(marker_streams[k].time_series) = 1
          /\ marker_streams[k].time_series[1] = <<TrialEndPayload(n, PayloadTime, d)>>
    /\ Abs(marker_streams[1].time_stamps[1] - marker_streams[2].time_stamps[1])
           < NearTicks

\* C6: the same TRIAL_END payload for trial n with duration d on two marker
\* streams, less than 0.0001 s apart, gives exactly one trial: number n,
\* duration d, type "trial_n", onset a marker onset minus d.
C6_OneTrial ==
    \A n \in TrialNumbers, d \in DuplicateDurations :
        (pc = "trials" /\ SamePayloadTwice(n, d)) =>
            /\ Len(trials) = 1
            /\ trials[1].trial_number = n
            /\ trials[1].duration = d
            /\ trials[1].trial_type = s_trial_ \o IntStr(n)
            /\ \E k \in 1..2 :
                  trials[1].onset = marker_streams[k].time_stamps[1] - d

\* The two timestamps round to different milliseconds, so both events are kept
\* and the two candidate trials are reduced to one
C6_Witness ==
    /\ pc = "trials"
    /\ \E n \in TrialNumbers, d \in DuplicateDurations : SamePayloadTwice(n, d)
    /\ Len(events) = 2
    /\ Len(trials) = 1

(***************************************************************************)
(* Perturbation pairing: one marker stream with up to MaxSlots markers at  *)
(* fixed, increasing times, each a perturbation start, a perturbation end  *)
(* or a TRIAL_END, and one data stream.  The first two times are one tick  *)
(* apart on the two sides of a rounding boundary.                          *)
(***************************************************************************)
MaxSlots == 5

SlotOnset(k) ==
    IF k = 1 THEN TicksPerMilli \div 2
    ELSE IF k = 2 THEN (TicksPerMilli \div 2) + 1
    ELSE 3 * k * TicksPerMilli

s_PERTURBATION_END ==
    <<"P","E","R","T","U","R","B","A","T","I","O","N","_","E","N","D">>

SlotPayloads ==
    {<<>>, s_perturbation_start, s_PERTURBATION_END,
     TrialEndPayload(1, PayloadTime, 0)}

\* A data stream named "wii" of type "mocap" with the given timestamps
WiiStream(timestamps) ==
    [name |-> s_wii, type |-> s_mocap, time_stamps |-> timestamps,
     time_series |-> [i \in DOMAIN timestamps |-> <<i>>]]

SlotRecording(f) ==
    <<MarkerStream(s_markers_a, [k \in DOMAIN f |-> <<SlotOnset(k), f[k]>>]),
      WiiStream(<<0, SlotOnset(MaxSlots)>>)>>

SlotRecordings == {SlotRecording(f) : f \in [1..MaxSlots -> SlotPayloads]}

LoadSlotRecording == pc = "new" /\ \E ss \in SlotRecordings : LoadXdf(ss)

NextPerturbations == LoadSlotRecording \/ (pc # "done" /\ ProcessData)

SpecPerturbations == Init /\ [][NextPerturbations]_vars

\* The deduplicated, sorted start and end lists of the current events
Starts == PerturbationStarts(events)
Ends == PerturbationEnds(events)

\* C7: with n+1 starts and n ends after deduplication there are n+1
\* perturbations in ascending start order; the i-th of the first n runs from
\* start[i] to end[i], the last has the last start's onset and duration 0.
C7_OneOrphanStart ==
    (pc = "perturbations" /\ Len(Starts) = Len(Ends) + 1) =>
        /\ Len(perturbations) = Len(Starts)
        /\ \A i \in 1..(Len(perturbations) - 1) :
              perturbations[i].onset <= perturbations[i + 1].onset
        /\ \A i \in 1..Len(Ends) :
              /\ perturbations[i].onset = Starts[i].onset
              /\ perturbations[i].duration = Ends[i].onset - Starts[i].onset
        /\ perturbations[Len(Starts)].onset = Starts[Len(Starts)].onset
        /\ perturbations[Len(Starts)].duration = 0

\* Three starts and two ends have given three perturbations
C7_Witness ==
    /\ pc = "perturbations"
    /\ Len(Starts) = 3
    /\ Len(Ends) = 2
    /\ Len(perturbations) = 3
    /\ perturbations[1].duration > 0

\* C8: for a start/end count mismatch other than one extra start the
\* perturbation list is left empty, and process_data goes on to return a
\* bundle holding the events, the trials and the window with no perturbations.
C8_MismatchEmpties ==
    (Len(Starts) # Len(Ends) /\ Len(Starts) # Len(Ends) + 1) =>
        /\ pc = "perturbations" => perturbations = <<>>
        /\ pc = "done" =>
              /\ results # None
              /\ The(results).perturbations = <<>>
              /\ The(results).events = events
              /\ The(results).trials = trials
              /\ The(results).time_window = FindOverlapWindow(data_streams)

\* process_data has returned for events with two starts more than ends and a
\* trial
C8_Witness ==
    /\ pc = "done"
    /\ Len(Starts) >= Len(Ends) + 2
    /\ Len(trials) = 1
    /\ The(results).events # <<>>

(***************************************************************************)
(* The overlap window: up to MaxDataStreams data streams, each with one of *)
(* a few timestamp arrays (whole seconds; one array is empty, two are not  *)
(* in increasing order).                                                   *)
(***************************************************************************)
MaxDataStreams == 2

WindowTimes ==
    {<<>>, <<3>>, <<0, 10>>, <<2, 8>>, <<0, 5>>, <<6, 10>>, <<5, 0>>, <<2, 9, 4>>}

InSeconds(q) == [i \in DOMAIN q |-> Seconds(q[i])]

\* A data stream named "kinect" of type "mocap" with the given timestamps
KinectStream(timestamps) ==
    [name |-> s_kinect, type |-> s_mocap, time_stamps |-> timestamps,
     time_series |-> [i \in DOMAIN timestamps |-> <<i>>]]

WindowStreams ==
    {WiiStream(InSeconds(q)) : q \in WindowTimes}
        \cup {KinectStream(InSeconds(q)) : q \in WindowTimes}

WindowRecordings == SeqsUpTo(WindowStreams, MaxDataStreams)

LoadWindowRecording == pc = "new" /\ \E ss \in WindowRecordings : LoadXdf(ss)

NextWindow == LoadWindowRecording \/ (pc # "done" /\ ProcessData)

SpecWindow == Init /\ [][NextWindow]_vars

SetMax(S) == CHOOSE x \in S : \A y \in S : y <= x
SetMin(S) == CHOOSE x \in S : \A y \in S : x <= y

FirstTimestamps == {data_streams[i].time_stamps[1] : i \in DOMAIN data_streams}
LastTimestamps ==
    {data_streams[i].time_stamps[Len(data_streams[i].time_stamps)]
     : i \in DOMAIN data_streams}

\* There are data streams and every one of them has a timestamp
AllTimed ==
    /\ data_streams # <<>>
    /\ \A i \in DOMAIN data_streams : data_streams[i].time_stamps # <<>>

\* The data streams do not overlap: the latest start is after the earliest end
NoOverlap == AllTimed /\ SetMax(FirstTimestamps) > SetMin(LastTimestamps)

\* C9: for data streams that all have a timestamp the window is (max of the
\* first timestamps, min of the last timestamps) when that start <= end, and
\* (min of the first timestamps, max of the last timestamps) otherwise.
C9_Window ==
    (pc = "done" /\ AllTimed) =>
        The(results).time_window =
            IF SetMax(FirstTimestamps) <= SetMin(LastTimestamps)
            THEN <<SetMax(FirstTimestamps), SetMin(LastTimestamps)>>
            ELSE <<SetMin(FirstTimestamps), SetMax(LastTimestamps)>>

\* A = [0, 5] and B = [6, 10] have given the window (0, 10)
C9_Witness ==
    /\ pc = "done"
    /\ Len(data_streams) = 2
    /\ data_streams[1].time_stamps = InSeconds(<<0, 5>>)
    /\ data_streams[2].time_stamps = InSeconds(<<6, 10>>)
    /\ The(results).time_window = <<Seconds(0), Seconds(10)>>

\* A bundle marked degraded: it has a `degraded` entry, and the entry is true
IsMarkedDegraded(bundle) ==
    "degraded" \in DOMAIN bundle /\ bundle.degraded = TRUE

\* C10: the bundle process_data returns is marked degraded exactly when the
\* data streams do not overlap.
C10_DegradedFlag ==
    pc = "done" => (IsMarkedDegraded(The(results)) <=> NoOverlap)

(***************************************************************************)
(* Rebasing: one data stream that starts at a time other than 0, one       *)
(* marker stream with up to MaxRebaseMarkers markers (perturbation starts  *)
(* and ends, a TRIAL_END, a plain marker) and, in half of the recordings,  *)
(* one metadata sample.                                                    *)
(***************************************************************************)
MaxRebaseMarkers == 2

RebaseStarts == {Seconds(2), Seconds(5)}
RebaseOnsetChoices == {Seconds(6), Seconds(7)}
RebasePayloads ==
    {s_perturbation_start, s_PERTURBATION_END,
     TrialEndPayload(1, PayloadTime, Seconds(1)), <<"a">>}

\* A metadata stream of (timestamp, payload) samples, one string per sample
MetaStream(samples) ==
    [name |-> s_trial_meta, type |-> s_Markers,
     time_stamps |-> [i \in DOMAIN samples |-> samples[i][1]],
     time_series |-> [i \in DOMAIN samples |-> <<samples[i][2]>>]]

RebaseMetaChoices == {<<>>, <<<<Seconds(6), s_trial_name_eq \o <<"x">>>>>>}

RebaseRecordings ==
    {<<WiiStream(<<t, t + Seconds(1), Seconds(20)>>),
       MarkerStream(s_markers_a, q), MetaStream(m)>>
     : t \in RebaseStarts,
       q \in SeqsUpTo(RebaseOnsetChoices \X RebasePayloads, MaxRebaseMarkers),
       m \in RebaseMetaChoices}

LoadRebaseRecording == pc = "new" /\ \E ss \in RebaseRecordings : LoadXdf(ss)

NextRebase ==
    \/ LoadRebaseRecording
    \/ (pc # "done" /\ ProcessData)
    \/ ApplyRelativeTimeToResults

SpecRebase == Init /\ [][NextRebase]_vars

\* C11: a step in which apply_relative_time_to_results returns a bundle
\* leaves the bundle it was given, with every timestamp array and onset in
\* it, and the processor's events, meta, trials and perturbations as they
\* were.
C11_RebaseKeepsOriginal ==
    [][relative' # relative =>
          UNCHANGED <<results, events, meta, trials, perturbations>>]_vars

\* A rebased bundle exists next to the original, whose window does not start
\* at 0 and which has events, a meta record, a trial and a perturbation
C11_Witness ==
    /\ relative # None
    /\ The(results).time_window[1] # 0
    /\ The(results).events # <<>>
    /\ The(results).meta # <<>>
    /\ The(results).trials # <<>>
    /\ The(results).perturbations # <<>>
    /\ The(relative).events # The(results).events
    /\ events = The(results).events

Onsets(recs) == [i \in DOMAIN recs |-> recs[i].onset]

\* The onsets `there` are the onsets `here` less t0, and adding the
\* processor's global_t0 back gives `here` again
RebasedBy(there, here, t0) ==
    /\ DOMAIN there = DOMAIN here
    /\ \A i \in DOMAIN here : there[i] = here[i] - t0
    /\ ~ConvertToAbsoluteTime(global_t0, there).raised
    /\ ConvertToAbsoluteTime(global_t0, there).value = here

\* C12: every onset of the rebased copy (data timestamps, events, meta,
\* trials, perturbations) is the original onset less the bundle's global_t0,
\* and convert_to_absolute_time of it is the original onset.
C12_RoundTrip ==
    relative # None =>
        LET orig == The(results)
            rel == The(relative)
            t0 == orig.global_t0
        IN /\ DOMAIN rel.data = DOMAIN orig.data
           /\ \A r \in DOMAIN orig.data :
                 RebasedBy(rel.data[r].timestamps, orig.data[r].timestamps, t0)
           /\ RebasedBy(Onsets(rel.events), Onsets(orig.events), t0)
           /\ RebasedBy(Onsets(rel.meta), Onsets(orig.meta), t0)
           /\ RebasedBy(Onsets(rel.trials), Onsets(orig.trials), t0)
           /\ RebasedBy(Onsets(rel.perturbations), Onsets(orig.perturbations), t0)

\* A rebased bundle with data timestamps, an event, a trial and a
\* perturbation, from a window that does not start at 0
C12_Witness ==
    /\ relative # None
    /\ The(results).global_t0 # 0
    /\ DOMAIN The(relative).data # {}
    /\ The(relative).events # <<>>
    /\ The(relative).meta # <<>>
    /\ The(relative).trials # <<>>
    /\ The(relative).perturbations # <<>>

(***************************************************************************)
(* The life of one processor: any of a few recordings may be loaded        *)
(* whenever the caller has control, before or after a run, and             *)
(* process_data and the two conversions may be called at any such time.    *)
(***************************************************************************)
\* A recording whose data stream starts at t, with or without markers
LifecycleRecording(t, marked) ==
    <<WiiStream(<<t, t + Seconds(10)>>),
      MarkerStream(s_markers_a,
                   IF marked
                   THEN <<<<t + Seconds(1), s_perturbation_start>>,
                          <<t + Seconds(2), s_PERTURBATION_END>>,
                          <<t + Seconds(3), TrialEndPayload(1, PayloadTime, Seconds(1))>>>>
                   ELSE <<>>),
      MetaStream(IF marked THEN <<<<t, s_trial_name_eq \o <<"x">>>>>> ELSE <<>>)>>

LifecycleRecordings ==
    {<<>>} \cup {LifecycleRecording(t, marked)
                 : t \in {Seconds(2), Seconds(5)}, marked \in BOOLEAN}

ConvertArguments == {<<Seconds(7)>>, <<Seconds(7), Seconds(9)>>}

LoadLifecycleRecording == Idle /\ \E ss \in LifecycleRecordings : LoadXdf(ss)

ConvertSomeRelative == \E ts \in ConvertArguments : ConvertRelative(ts)

ConvertSomeAbsolute == \E ts \in ConvertArguments : ConvertAbsolute(ts)

NextLifecycle ==
    \/ LoadLifecycleRecording
    \/ ProcessDataNotLoaded
    \/ ProcessData
    \/ ConvertSomeRelative
    \/ ConvertSomeAbsolute

SpecLifecycle == Init /\ [][NextLifecycle]_vars

\* The last call was a conversion
Converted ==
    /\ outcome # None
    /\ The(outcome).op \in {"convert_to_relative_time", "convert_to_absolute_time"}

C15_NothingStale ==
    Idle =>
        /\ global_t0 \in {None, Some(FindOverlapWindow(data_streams)[1])}
        /\ events \in {<<>>} \cup ExtractEventsOutcomes(marker_streams)
        /\ meta \in {<<>>} \cup ExtractMetaOutcomes(meta_streams)
        /\ trials \in {<<>>, ExtractTrials(events)}
        /\ perturbations \in {<<>>, ExtractPerturbations(events)}

(***************************************************************************)
(* Classification: _classify_stream called on streams whose names and      *)
(* types hit every rule, two rules at once, a rule's substring without     *)
(* being equal to it, and no rule.                                         *)
(***************************************************************************)
ClassifyNames ==
    {<<"W","i","i">>,
     <<"W","i","i","K","i","n","e","c","t">>,
     <<"K","i","n","e","c","t">>,
     <<"p","u","p","i","l","_","c","a","p","t","u","r","e">>,
     <<"P","u","p","i","l","_","C","a","p","t","u","r","e","_","1">>,
     <<"V","R","_","B","o","d","y","S","w","a","y">>,
     <<"s","t","i","m">>,
     <<"M","y","M","a","r","k","e","r">>,
     <<"t","r","i","a","l","_","m","e","t","a">>,
     <<"t","r","i","a","l","_","m","e","t","a","_","e","v","e","n","t">>,
     <<"f","o","o">>}

ClassifyTypes ==
    {<<"M","o","C","a","p">>,
     <<"g","a","z","e">>,
     <<"G","a","z","e","_","d","a","t","a">>,
     <<"f","i","x","a","t","i","o","n">>,
     <<"t","i","m","e","s","e","r","i","e","s">>,
     <<"M","a","r","k","e","r","s">>,
     <<"m","e","t","a">>,
     <<"E","E","G">>,
     <<"m","o","c","a","p","_","g","a","z","e">>,
     <<>>}

ClassifySome ==
    \E name \in ClassifyNames, type \in ClassifyTypes :
        Classify(EmptyStream(name, type))

NextClassify == ClassifySome

SpecClassify == Init /\ [][NextClassify]_vars

\* Rule i of the table matches the lower-cased name n and type t
RuleHolds(i, n, t) ==
    LET rule == RawStreamPatterns[i]
    IN IF rule.matching = "exact"
       THEN /\ \E j \in DOMAIN rule.name : rule.name[j] = n
            /\ \E k \in DOMAIN rule.type : rule.type[k] = t
       ELSE /\ \E j \in DOMAIN rule.name : Contains(rule.name[j], n)
            /\ \E k \in DOMAIN rule.type : Contains(rule.type[k], t)

\* C14: _classify_stream returns the role of the first rule, in table order,
\* that matches the lower-cased name and type (exact: equal to one of the
\* names and one of the types; pattern: containing one of each), returns
\* "data" when no rule matches, and never raises.
C14_FirstMatchingRule ==
    (outcome # None /\ The(outcome).op = "_classify_stream") =>
        LET n == Lower(The(outcome).arg.name)
            t == Lower(The(outcome).arg.type)
            role == The(outcome).value
        IN /\ ~The(outcome).raised
           /\ \/ /\ role = "data"
                 /\ \A i \in DOMAIN RawStreamPatterns : ~RuleHolds(i, n, t)
              \/ \E i \in DOMAIN RawStreamPatterns :
                    /\ RuleHolds(i, n, t)
                    /\ role = RawStreamPatterns[i].role
                    /\ \A j \in 1..(i - 1) : ~RuleHolds(j, n, t)

\* A stream that the "wii" and the "kinect" rule both match was given "wii"
C14_Witness ==
    /\ outcome # None
    /\ The(outcome).op = "_classify_stream"
    /\ Contains(s_wii, Lower(The(outcome).arg.name))
    /\ Contains(s_kinect, Lower(The(outcome).arg.name))
    /\ Contains(s_mocap, Lower(The(outcome).arg.type))
    /\ The(outcome).value = "wii"

(***************************************************************************)
(* The precedence of the groups, on the recordings of SpecOrganize.        *)
(***************************************************************************)
IsOneOf(group, stream) == \E i \in DOMAIN group : group[i] = stream

MetaByRule(stream) ==
    /\ \/ Contains(s_marker, Lower(stream.type))
       \/ Contains(s_meta, Lower(stream.type))
    /\ Contains(s_trial_meta, Lower(stream.name))

MarkerByRule(stream) ==
    /\ Contains(s_marker, Lower(stream.type))
    /\ \/ Contains(s_marker, Lower(stream.name))
       \/ Contains(s_event, Lower(stream.name))
       \/ Contains(s_trigger, Lower(stream.name))

\* The groups a stream is in, by value
GroupsOf(stream) ==
    {g \in {"meta", "marker", "data"} :
        IsOneOf(IF g = "meta" THEN meta_streams
                ELSE IF g = "marker" THEN marker_streams
                ELSE data_streams, stream)}

MaxToleranceSlots == 4

ToleranceBases == {Seconds(1), Seconds(10000)}

\* Slot k of a recording: 0, 0.05, 1, 1.05, 2, ... seconds after the base
ToleranceOffset(k) ==
    Seconds((k - 1) \div 2) + (IF k % 2 = 0 THEN TicksPerSecond \div 20 ELSE 0)

TolerancePayloads == {<<>>, s_perturbation_start, s_PERTURBATION_END}

ToleranceRecordings ==
    {<<MarkerStream(s_markers_a,
                    [k \in 1..MaxToleranceSlots |-> <<base + ToleranceOffset(k), f[k]>>])>>
     : base \in ToleranceBases, f \in [1..MaxToleranceSlots -> TolerancePayloads]}

LoadToleranceRecording ==
    pc = "new" /\ \E ss \in ToleranceRecordings : LoadXdf(ss)

NextTolerance == LoadToleranceRecording \/ (pc # "done" /\ ProcessData)

SpecTolerance == Init /\ [][NextTolerance]_vars

StartEvents == SelectSeq(events, IsPerturbationStart)
EndEvents == SelectSeq(events, IsPerturbationEnd)

\* No two of the events are within 1e-5 s of each other
FartherThanAtol(evs) ==
    \A i, j \in DOMAIN evs :
        i # j => Abs(evs[i].onset - evs[j].onset) > AtolTicks

\* C16: starts that are pairwise more than 1e-5 s apart are all retained,
\* and so are such ends, whatever the magnitude of the onsets: with as many
\* ends as starts, or one end fewer, there is one perturbation per start.
C16_AbsoluteTolerance ==
    (/\ pc = "perturbations"
     /\ FartherThanAtol(StartEvents)
     /\ FartherThanAtol(EndEvents)
     /\ Len(StartEvents) - Len(EndEvents) \in {0, 1}) =>
        Onsets(perturbations) = Onsets(StartEvents)

(***************************************************************************)
(* Pairing with equal counts, on the recordings of SpecPerturbations.      *)
(***************************************************************************)
\* C17: with n starts and n ends after deduplication there are exactly n
\* perturbations in ascending start order; the i-th has event_type
\* "perturbation", the onset and source of start[i] and the duration
\* end[i].onset - start[i].onset; the events keep their payloads and their
\* durations of 0.
C17_EqualCounts ==
    (pc = "perturbations" /\ Len(Starts) = Len(Ends)) =>
        /\ Len(perturbations) = Len(Starts)
        /\ \A i \in DOMAIN perturbations :
              perturbations[i] =
                  [onset |-> Starts[i].onset,
                   duration |-> Ends[i].onset - Starts[i].onset,
                   event_type |-> s_perturbation,
                   source |-> Starts[i].source]
        /\ \A i \in 1..(Len(perturbations) - 1) :
              perturbations[i].onset <= perturbations[i + 1].onset
        /\ \A k \in DOMAIN events :
              /\ events[k].duration = 0
              /\ events[k].event_type # s_perturbation
              /\ Split(events[k].event_type, ":")[1] = events[k].label

\* Two starts and two ends have given two perturbations, the first of them
\* with a duration other than 0
C17_Witness ==
    /\ pc = "perturbations"
    /\ Len(Starts) = 2
    /\ Len(Ends) = 2
    /\ Len(perturbations) = 2
    /\ perturbations[1].duration # 0
    /\ perturbations[1].event_type = s_perturbation

(***************************************************************************)
(* TRIAL_END payloads in several layouts: one marker stream with up to     *)
(* MaxFormatMarkers markers, the k-th at 10 + k seconds.  Every layout     *)
(* names trial n and, when it is well formed, a duration of 2 s.           *)
(***************************************************************************)
MaxFormatMarkers == 2

FormatDuration == Seconds(2)

s_block_eq_2 == <<"b","l","o","c","k","=","2">>
s_duration_eq_abc == <<"d","u","r","a","t","i","o","n","=","a","b","c">>

TrialEndHead(n) == s_TRIAL_END \o <<":">> \o IntStr(n) \o <<":">>
TimeField == s_time_eq \o FloatStr(PayloadTime)
DurationField == s_duration_eq \o FloatStr(FormatDuration)

\* The layouts: the payload, whether it has an integer trial index and a
\* duration=<float> field, and the trial number it names
FormatLayouts ==
    {[payload |-> TrialEndPayload(n, PayloadTime, FormatDuration),
      well_formed |-> TRUE, trial_number |-> n] : n \in TrialNumbers}
    \cup
    {[payload |-> TrialEndHead(1) \o DurationField,
      well_formed |-> TRUE, trial_number |-> 1],
     [payload |-> TrialEndHead(1) \o DurationField \o <<":">> \o TimeField,
      well_formed |-> TRUE, trial_number |-> 1],
     [payload |-> TrialEndHead(1) \o TimeField \o <<":">> \o s_block_eq_2
                      \o <<":">> \o DurationField,
      well_formed |-> TRUE, trial_number |-> 1],
     [payload |-> TrialEndHead(1) \o TimeField \o <<":">> \o DurationField
                      \o <<":">> \o s_block_eq_2,
      well_formed |-> TRUE, trial_number |-> 1],
     [payload |-> s_TRIAL_END \o <<":", "x", ":">> \o TimeField \o <<":">>
                      \o DurationField,
      well_formed |-> FALSE, trial_number |-> 0],
     [payload |-> TrialEndHead(1) \o TimeField \o <<":">> \o s_duration_eq_abc,
      well_formed |-> FALSE, trial_number |-> 1]}

FormatRecordings ==
    {<<MarkerStream(s_markers_a,
                    [k \in DOMAIN q |-> <<Seconds(10 + k), q[k].payload>>])>>
     : q \in SeqsUpTo(FormatLayouts, MaxFormatMarkers)}

LoadFormatRecording == pc = "new" /\ \E ss \in FormatRecordings : LoadXdf(ss)

NextFormats == LoadFormatRecording \/ (pc # "done" /\ ProcessData)

SpecFormats == Init /\ [][NextFormats]_vars

\* The trial a well-formed layout at event i stands for
FormatCandidates ==
    {[onset |-> events[i].onset - FormatDuration, duration |-> FormatDuration,
      trial_type |-> s_trial_ \o IntStr(l.trial_number),
      trial_number |-> l.trial_number]
     : <<i, l>> \in {x \in (DOMAIN events) \X FormatLayouts :
                        /\ x[2].well_formed
                        /\ events[x[1]].event_type = x[2].payload}}

\* C18: every event whose TRIAL_END payload has an integer trial index and a
\* duration=<float> field, wherever that field sits, gives a candidate trial
\* (so its trial number has a trial, with an onset no earlier than the
\* candidate's), and every trial is the candidate of such an event: a
\* malformed payload gives none.
C18_AnyLayout ==
    pc = "trials" =>
        /\ \A c \in FormatCandidates :
              \E i \in DOMAIN trials :
                 /\ trials[i].trial_number = c.trial_number
                 /\ trials[i].onset >= c.onset
                 /\ trials[i].duration = c.duration
        /\ \A i \in DOMAIN trials : trials[i] \in FormatCandidates

(***************************************************************************)
(* Empty samples: a marker stream and a metadata stream with up to         *)
(* MaxSampleSlots samples each, the k-th at k seconds, whose one element   *)
(* is the empty string, a plain marker or a trial_name field.              *)
(***************************************************************************)
MaxSampleSlots == 2

SamplePayloads == {<<>>, <<"a">>, s_trial_name_eq \o <<"x">>}

SampleRecordings ==
    {<<MarkerStream(s_markers_a, [k \in DOMAIN f |-> <<Seconds(k), f[k][1]>>]),
       MetaStream([k \in DOMAIN f |-> <<Seconds(k), f[k][2]>>])>>
     : f \in [1..MaxSampleSlots -> SamplePayloads \X SamplePayloads]}

LoadSampleRecording == pc = "new" /\ \E ss \in SampleRecordings : LoadXdf(ss)

NextSamples == LoadSampleRecording \/ (pc # "done" /\ ProcessData)

SpecSamples == Init /\ [][NextSamples]_vars

\* Some sample of the streams ss at time t has a non-empty first element
NonEmptySampleAt(ss, t) ==
    \E i \in DOMAIN ss : \E k \in DOMAIN ss[i].time_series :
        /\ ss[i].time_stamps[k] = t
        /\ ss[i].time_series[k] # <<>>
        /\ ss[i].time_series[k][1] # <<>>

\* C20: every event comes from a marker sample whose first element is not
\* empty and every meta record from a metadata sample whose first element is
\* not empty: a sample whose first element is the empty string gives neither.
C20_EmptySkipped ==
    pc = "meta" =>
        /\ \A i \in DOMAIN events : NonEmptySampleAt(marker_streams, events[i].onset)
        /\ \A i \in DOMAIN meta : NonEmptySampleAt(meta_streams, meta[i].onset)

(***************************************************************************)
(* Streams of one role: up to MaxRoleStreams data streams, each named      *)
(* "foo" or "bar" (no rule matches: role "data") or "wii" (role "wii"),    *)
(* with one of three timestamp arrays.  A sample is the pair (position of  *)
(* its stream in the recording, index in the stream), so that the stream a *)
(* sample of the bundle came from can be told.                             *)
(***************************************************************************)
MaxRoleStreams == 3

s_foo == <<"f","o","o">>
s_bar == <<"b","a","r">>
s_EEG == <<"E","E","G">>

RoleKinds ==
    {[name |-> s_foo, type |-> s_EEG],
     [name |-> s_bar, type |-> s_EEG],
     [name |-> s_wii, type |-> s_mocap]}

RoleTimes == {<<0, 5, 10>>, <<2, 8>>, <<0, 10>>}

\* The stream at position k of a recording
RoleStream(k, kind, timestamps) ==
    [name |-> kind.name, type |-> kind.type, time_stamps |-> timestamps,
     time_series |-> [i \in DOMAIN timestamps |-> <<k, i>>]]

RoleRecordings ==
    UNION {{[k \in 1..n |-> RoleStream(k, kinds[k], InSeconds(times[k]))]
            : kinds \in [1..n -> RoleKinds], times \in [1..n -> RoleTimes]}
           : n \in 0..MaxRoleStreams}

LoadRoleRecording == pc = "new" /\ \E ss \in RoleRecordings : LoadXdf(ss)

NextRoles == LoadRoleRecording \/ (pc # "done" /\ ProcessData)

SpecRoles == Init /\ [][NextRoles]_vars

\* The indexes of the samples of a stream whose timestamps are in the window
InWindow(stream, w) ==
    {i \in DOMAIN stream.time_stamps :
        w[1] <= stream.time_stamps[i] /\ stream.time_stamps[i] <= w[2]}

\* The positions of the data streams of a role that have a sample in the window
Contributors(role, w) ==
    {k \in DOMAIN data_streams :
        /\ ClassifyStream(data_streams[k]) = role
        /\ InWindow(data_streams[k], w) # {}}

\* C21: in the bundle process_data returns, a role is present exactly when a
\* data stream of the role has a sample in the window; its timestamps are all
\* inside the window; its data, timestamps and metadata are those of the last
\* such stream in input order, and no sample of an earlier stream of the role
\* is in the bundle.
C21_LastOfRoleWins ==
    pc = "done" =>
        LET res == The(results)
            w == res.time_window
            roles == {ClassifyStream(data_streams[k]) : k \in DOMAIN data_streams}
        IN /\ DOMAIN res.data = {r \in roles : Contributors(r, w) # {}}
           /\ DOMAIN res.metadata = DOMAIN res.data
           /\ \A r \in DOMAIN res.data :
                LET last == SetMax(Contributors(r, w))
                    stream == data_streams[last]
                    held == res.data[r]
                IN /\ \A j \in DOMAIN held.timestamps :
                        w[1] <= held.timestamps[j] /\ held.timestamps[j] <= w[2]
                   /\ Len(held.raw_data) = Cardinality(InWindow(stream, w))
                   /\ DOMAIN held.timestamps = DOMAIN held.raw_data
                   /\ \A j \in DOMAIN held.raw_data :
                        \E i \in InWindow(stream, w) :
                            /\ held.raw_data[j] = stream.time_series[i]
                            /\ held.timestamps[j] = stream.time_stamps[i]
                   /\ \A j, l \in DOMAIN held.raw_data :
                        j # l => held.raw_data[j] # held.raw_data[l]
                   /\ res.metadata[r].name = stream.name
                   /\ res.metadata[r].type = stream.type
                   /\ res.metadata[r].samples = Len(held.raw_data)
                   /\ \A k \in Contributors(r, w) \ {last} :
                        \A i \in DOMAIN data_streams[k].time_series :
                            \A j \in DOMAIN held.raw_data :
                                held.raw_data[j] # data_streams[k].time_series[i]

\* "foo" and "bar" both fall to the role "data" and both have samples in the
\* window; a third stream of the role has none; the bundle holds "bar"
C21_Witness ==
    /\ pc = "done"
    /\ Len(data_streams) = 3
    /\ data_streams[1].name = s_foo
    /\ data_streams[2].name = s_bar
    /\ data_streams[3].name = s_foo
    /\ Contributors("data", The(results).time_window) = {1, 2}
    /\ The(results).metadata["data"].name = s_bar
    /\ The(results).data["data"].raw_data[1][1] = 2

=============================================================================
